---- MODULE Spec2Model ----
(***************************************************************************)
(* Version negotiation and route lifecycle of the authentication service:  *)
(* the process-wide VersionRegistry (core/routing/utils/version.py), the   *)
(* VersionMiddleware (core/middlewares/version.py), the VersionManager     *)
(* (core/routing/version_manager.py) and the route declarations            *)
(* (core/routing/decorators.py).                                           *)
(***************************************************************************)
EXTENDS Integers, Sequences, FiniteSets, TLC

(***************************************************************************)
(* Bounds of the model.                                                    *)
(***************************************************************************)
\* Registry calls made in one run of the sequential specification.
MaxOps == 5

(***************************************************************************)
(* semver.Version values.  A version is a record; an absent prerelease or  *)
(* build (None) is the empty text.  Texts are sequences of characters.     *)
(***************************************************************************)
Majors == {1, 2}
Prereleases == {<<>>, <<"r", "c">>}
Builds == {<<>>, <<"b">>}

Versions ==
    [major : Majors, minor : {0}, patch : {0},
     prerelease : Prereleases, build : Builds]

\* Version.__eq__ / __hash__: major, minor, patch and prerelease; build is ignored.
VEq(a, b) ==
    /\ a.major = b.major
    /\ a.minor = b.minor
    /\ a.patch = b.patch
    /\ a.prerelease = b.prerelease

\* Character codes of the characters the model's texts use (str comparison).
Ord(c) ==
    CASE c = "+" -> 43 [] c = "-" -> 45 [] c = "." -> 46 [] c = "/" -> 47
      [] c = "0" -> 48 [] c = "1" -> 49 [] c = "2" -> 50 [] c = "3" -> 51
      [] c = "a" -> 97 [] c = "b" -> 98 [] c = "c" -> 99 [] c = "e" -> 101
      [] c = "h" -> 104 [] c = "j" -> 106 [] c = "l" -> 108 [] c = "m" -> 109
      [] c = "n" -> 110 [] c = "o" -> 111 [] c = "p" -> 112 [] c = "r" -> 114
      [] c = "s" -> 115 [] c = "t" -> 116 [] c = "v" -> 118 [] c = "x" -> 120
      [] OTHER -> 0

\* Python's str comparison: -1, 0 or 1.
RECURSIVE StrCmp(_, _)
StrCmp(s, t) ==
    IF s = <<>> /\ t = <<>> THEN 0
    ELSE IF s = <<>> THEN -1
    ELSE IF t = <<>> THEN 1
    ELSE IF Ord(Head(s)) < Ord(Head(t)) THEN -1
    ELSE IF Ord(Head(s)) > Ord(Head(t)) THEN 1
    ELSE StrCmp(Tail(s), Tail(t))

\* Version.compare: the numeric triple first; then a version without
\* prerelease is above one with a prerelease, and two prereleases compare
\* as texts (the model's prereleases have one alphabetic identifier).
VCmp(a, b) ==
    IF a.major # b.major THEN (IF a.major < b.major THEN -1 ELSE 1)
    ELSE IF a.minor # b.minor THEN (IF a.minor < b.minor THEN -1 ELSE 1)
    ELSE IF a.patch # b.patch THEN (IF a.patch < b.patch THEN -1 ELSE 1)
    ELSE IF StrCmp(a.prerelease, b.prerelease) = 0 THEN 0
    ELSE IF a.prerelease = <<>> THEN 1
    ELSE IF b.prerelease = <<>> THEN -1
    ELSE StrCmp(a.prerelease, b.prerelease)

VLeq(a, b) == VCmp(a, b) <= 0

(***************************************************************************)
(* Python set[Version]: membership, add and discard go by __eq__/__hash__. *)
(***************************************************************************)
SetHas(S, v) == \E w \in S : VEq(w, v)

SetAdd(S, v) == IF SetHas(S, v) THEN S ELSE S \cup {v}

SetDiscard(S, v) == {w \in S : ~VEq(w, v)}

(***************************************************************************)
(* State.                                                                  *)
(***************************************************************************)
VARIABLES
    _versions,              \* VersionRegistry._versions
    _deprecated_versions,   \* VersionRegistry._deprecated_versions
    _default_version,       \* VersionRegistry._default_version: {} is None, else {v}
    last,                   \* the last registry call: name, arguments, outcome
    pre,                    \* the registry as that call found it
    nops,                   \* registry calls made so far
    pc,                     \* where the thread in remove_version stands
    ver_obj,                \* remove_version's local ver_obj: {} or {v}
    rpc,                    \* where the reading thread stands
    robs,                   \* what the reading thread's calls returned
    mw,                     \* VersionMiddleware: vendor_prefix, latest_version
    reqs,                   \* per request: its ASGI scope, the downstream calls
    routes,                 \* app.router.routes, the live route table
    manager,                \* VersionManager: its configuration and fields
    runs,                   \* per apply() call: what it found, did and computed
    handler,                \* the decorated function's two metadata attributes
    decl,                   \* the last declaration on it: arguments, outcome
    parse,                  \* a text and what the parsers made of it
    apc,                    \* where the thread in apply() stands
    observed                \* the route tables a dispatching thread has read

regVars == <<_versions, _deprecated_versions, _default_version>>
histVars == <<last, pre, nops>>
concVars == <<pc, ver_obj, rpc, robs>>
mwVars == <<mw, reqs>>
appVars == <<routes, manager, runs>>
declVars == <<handler, decl>>
parseVars == <<parse>>
swapVars == <<apc, observed>>
\* What the registry's operations never touch.
outsideRegistry == <<mw, reqs, appVars, declVars, parseVars, swapVars>>
\* What the middleware never touches.
outsideMiddleware ==
    <<regVars, histVars, concVars, appVars, declVars, parseVars, swapVars>>
vars ==
    <<_versions, _deprecated_versions, _default_version, last, pre, nops,
      pc, ver_obj, rpc, robs, mw, reqs, routes, manager, runs, handler, decl,
      parse, apc, observed>>

None == {}
\* No VersionManager has been constructed.
NoManager == [constructed |-> FALSE]
\* A function no declaration was applied to: neither attribute is set.
Undecorated == [__route_metadata__ |-> None, __version_metadata__ |-> None]
NoDeclaration == [n |-> 0, args |-> None, raised |-> "None", before |-> Undecorated]
\* No text has been handed to a parser.
NoText ==
    [text |-> <<>>, parsed |-> FALSE, value |-> None,
     negotiated |-> FALSE, requested |-> None]

Registry ==
    [versions |-> _versions,
     deprecated |-> _deprecated_versions,
     default |-> _default_version]

NoCall ==
    [op |-> "init", arg |-> None, set_default |-> FALSE, ret |-> "None",
     readds |-> "no"]

\* No middleware constructed, no request received.
NoMiddleware == [vendor_prefix |-> <<>>, latest_version |-> None]

NoObs == [arg |-> None, has |-> FALSE, deprecated |-> FALSE, default |-> FALSE]

\* Whether the call op(v) adds the version that the call before it
\* removed, and whether that version was deprecated when it was removed.
Readds(op, v) ==
    IF /\ op = "add_version"
       /\ last.op = "remove_version"
       /\ last.ret = "True"
       /\ \A w \in last.arg : VEq(w, v)
    THEN (IF \E d \in pre.deprecated : VEq(d, v) THEN "deprecated" ELSE "live")
    ELSE "no"

\* Bookkeeping shared by the registry calls.
Called(op, v, sd, ret) ==
    /\ nops < MaxOps
    /\ nops' = nops + 1
    /\ pre' = Registry
    /\ last' = [op |-> op, arg |-> {v}, set_default |-> sd, ret |-> ret,
                readds |-> Readds(op, v)]
    /\ UNCHANGED <<concVars, outsideRegistry>>

\* VersionRegistry.__init__
Init ==
    /\ _versions = {}
    /\ _default_version = None
    /\ _deprecated_versions = {}
    /\ last = NoCall
    /\ pre = [versions |-> {}, deprecated |-> {}, default |-> None]
    /\ nops = 0
    /\ pc = "idle"
    /\ ver_obj = None
    /\ rpc = "idle"
    /\ robs = NoObs
    /\ mw = NoMiddleware
    /\ reqs = <<>>
    /\ routes = <<>>
    /\ manager = NoManager
    /\ runs = <<>>
    /\ handler = Undecorated
    /\ decl = NoDeclaration
    /\ parse = NoText
    /\ apc = "idle"
    /\ observed = {}

(***************************************************************************)
(* VersionRegistry operations.                                             *)
(***************************************************************************)
\* Faulty variant: set_default is not consulted, every new version becomes
\* the default.
add_version_always_default(v, set_default) ==
    IF SetHas(_versions, v)
    THEN /\ UNCHANGED regVars
         /\ Called("add_version", v, set_default, "False")
    ELSE /\ _versions' = SetAdd(_versions, v)
         /\ _default_version' = {v}
         /\ UNCHANGED _deprecated_versions
         /\ Called("add_version", v, set_default, "True")

\* Faulty variant: the default is assigned before the membership test.
add_version_default_first(v, set_default) ==
    IF SetHas(_versions, v)
    THEN /\ _default_version' = IF set_default THEN {v} ELSE _default_version
         /\ UNCHANGED <<_versions, _deprecated_versions>>
         /\ Called("add_version", v, set_default, "False")
    ELSE /\ _versions' = SetAdd(_versions, v)
         /\ _default_version' =
                IF set_default \/ _default_version = None
                THEN {v} ELSE _default_version
         /\ UNCHANGED _deprecated_versions
         /\ Called("add_version", v, set_default, "True")

add_version(v, set_default) ==
    IF SetHas(_versions, v)
    THEN /\ UNCHANGED regVars
         /\ Called("add_version", v, set_default, "False")
    ELSE /\ _versions' = SetAdd(_versions, v)
         /\ _default_version' =
                IF set_default \/ _default_version = None
                THEN {v} ELSE _default_version
         /\ UNCHANGED _deprecated_versions
         /\ Called("add_version", v, set_default, "True")

\* Faulty variant: deprecated_versions is not touched.
remove_version_keeps_deprecated(v) ==
    IF ~SetHas(_versions, v)
    THEN /\ UNCHANGED regVars
         /\ Called("remove_version", v, FALSE, "False")
    ELSE /\ _versions' = SetDiscard(_versions, v)
         /\ UNCHANGED _deprecated_versions
         /\ _default_version' =
                IF \E d \in _default_version : VEq(d, v)
                THEN None ELSE _default_version
         /\ Called("remove_version", v, FALSE, "True")

\* Faulty variant: the deprecated set is searched for the very object
\* (build metadata included) instead of an equal version.
remove_version_discard_exact(v) ==
    IF ~SetHas(_versions, v)
    THEN /\ UNCHANGED regVars
         /\ Called("remove_version", v, FALSE, "False")
    ELSE /\ _versions' = SetDiscard(_versions, v)
         /\ _deprecated_versions' = _deprecated_versions \ {v}
         /\ _default_version' =
                IF \E d \in _default_version : VEq(d, v)
                THEN None ELSE _default_version
         /\ Called("remove_version", v, FALSE, "True")

\* Faulty variant: the default is not unset.
remove_version_keeps_default(v) ==
    IF ~SetHas(_versions, v)
    THEN /\ UNCHANGED regVars
         /\ Called("remove_version", v, FALSE, "False")
    ELSE /\ _versions' = SetDiscard(_versions, v)
         /\ _deprecated_versions' = SetDiscard(_deprecated_versions, v)
         /\ UNCHANGED _default_version
         /\ Called("remove_version", v, FALSE, "True")

\* Faulty variant: a remaining version is promoted to default.
remove_version_promotes(v) ==
    IF ~SetHas(_versions, v)
    THEN /\ UNCHANGED regVars
         /\ Called("remove_version", v, FALSE, "False")
    ELSE /\ _versions' = SetDiscard(_versions, v)
         /\ _deprecated_versions' = SetDiscard(_deprecated_versions, v)
         /\ _default_version' =
                IF \E d \in _default_version : VEq(d, v)
                THEN (IF SetDiscard(_versions, v) = {} THEN None
                      ELSE {CHOOSE w \in SetDiscard(_versions, v) : TRUE})
                ELSE _default_version
         /\ Called("remove_version", v, FALSE, "True")

remove_version(v) ==
    IF ~SetHas(_versions, v)
    THEN /\ UNCHANGED regVars
         /\ Called("remove_version", v, FALSE, "False")
    ELSE /\ _versions' = SetDiscard(_versions, v)
         /\ _deprecated_versions' = SetDiscard(_deprecated_versions, v)
         /\ _default_version' =
                IF \E d \in _default_version : VEq(d, v)
                THEN None ELSE _default_version
         /\ Called("remove_version", v, FALSE, "True")

\* Faulty variant: the default is assigned before the membership test.
set_default_version_assign_first(v) ==
    /\ _default_version' = {v}
    /\ UNCHANGED <<_versions, _deprecated_versions>>
    /\ Called("default_version", v, FALSE,
              IF SetHas(_versions, v) THEN "None" ELSE "ValueError")

set_default_version(v) ==
    IF SetHas(_versions, v)
    THEN /\ _default_version' = {v}
         /\ UNCHANGED <<_versions, _deprecated_versions>>
         /\ Called("default_version", v, FALSE, "None")
    ELSE /\ UNCHANGED regVars
         /\ Called("default_version", v, FALSE, "ValueError")

\* Faulty variant: deprecating the default version unsets the default.
deprecate_version_unsets_default(v) ==
    IF ~SetHas(_versions, v)
    THEN /\ UNCHANGED regVars
         /\ Called("deprecate_version", v, FALSE, "False")
    ELSE /\ _deprecated_versions' = SetAdd(_deprecated_versions, v)
         /\ _default_version' =
                IF \E d \in _default_version : VEq(d, v)
                THEN None ELSE _default_version
         /\ UNCHANGED _versions
         /\ Called("deprecate_version", v, FALSE, "True")

deprecate_version(v) ==
    IF ~SetHas(_versions, v)
    THEN /\ UNCHANGED regVars
         /\ Called("deprecate_version", v, FALSE, "False")
    ELSE /\ _deprecated_versions' = SetAdd(_deprecated_versions, v)
         /\ UNCHANGED <<_versions, _default_version>>
         /\ Called("deprecate_version", v, FALSE, "True")

undeprecate_version(v) ==
    IF ~SetHas(_versions, v)
    THEN /\ UNCHANGED regVars
         /\ Called("undeprecate_version", v, FALSE, "False")
    ELSE /\ _deprecated_versions' = SetDiscard(_deprecated_versions, v)
         /\ UNCHANGED <<_versions, _default_version>>
         /\ Called("undeprecate_version", v, FALSE, "True")

\* Faulty variant: only the primary set is emptied.
clear_versions_only ==
    /\ _versions' = {}
    /\ UNCHANGED <<_deprecated_versions, _default_version>>
    /\ nops < MaxOps
    /\ nops' = nops + 1
    /\ pre' = Registry
    /\ last' = [op |-> "clear", arg |-> None, set_default |-> FALSE, ret |-> "None",
                readds |-> "no"]
    /\ UNCHANGED <<concVars, outsideRegistry>>

clear ==
    /\ _versions' = {}
    /\ _deprecated_versions' = {}
    /\ _default_version' = None
    /\ nops < MaxOps
    /\ nops' = nops + 1
    /\ pre' = Registry
    /\ last' = [op |-> "clear", arg |-> None, set_default |-> FALSE, ret |-> "None",
                readds |-> "no"]
    /\ UNCHANGED <<concVars, outsideRegistry>>

AddVersion == \E v \in Versions, sd \in BOOLEAN : add_version(v, sd)
RemoveVersion == \E v \in Versions : remove_version(v)
SetDefaultVersion == \E v \in Versions : set_default_version(v)
DeprecateVersion == \E v \in Versions : deprecate_version(v)
UndeprecateVersion == \E v \in Versions : undeprecate_version(v)
Clear == clear

Next ==
    \/ AddVersion
    \/ RemoveVersion
    \/ SetDefaultVersion
    \/ DeprecateVersion
    \/ UndeprecateVersion
    \/ Clear

Spec == Init /\ [][Next]_vars

(***************************************************************************)
(* VersionRegistry queries.                                                *)
(***************************************************************************)
has_version(v) == SetHas(_versions, v)

is_valid(v) == SetHas(_versions, v) /\ ~SetHas(_deprecated_versions, v)

is_deprecated(v) == SetHas(_deprecated_versions, v)

\* sorted(): repeatedly takes a least element of what is left.
RECURSIVE Sorted(_)
Sorted(S) ==
    IF S = {} THEN <<>>
    ELSE LET m == CHOOSE x \in S : \A y \in S : VLeq(x, y)
         IN <<m>> \o Sorted(S \ {m})

\* Faulty variant: deprecated versions are never filtered out.
get_versions_unfiltered(include_deprecated) ==
    Sorted(_versions)

get_versions(include_deprecated) ==
    IF include_deprecated
    THEN Sorted(_versions)
    ELSE Sorted({v \in _versions : ~SetHas(_deprecated_versions, v)})

\* max(): the first element no later element is above.
RECURSIVE Max(_)
Max(xs) ==
    IF Len(xs) = 1 THEN xs[1]
    ELSE LET m == Max(Tail(xs))
         IN IF VCmp(m, xs[1]) > 0 THEN m ELSE xs[1]

latest_version ==
    LET versions == get_versions(FALSE)
    IN IF versions # <<>> THEN {Max(versions)} ELSE None

(***************************************************************************)
(* Properties of the registry under sequential use (Spec).                 *)
(***************************************************************************)
Fresh == [versions |-> {}, deprecated |-> {}, default |-> None]

\* C1: after any sequence of registry operations every deprecated version
\* is a registered version (membership by version equality).
C1_DeprecationContainment ==
    \A d \in _deprecated_versions : \E w \in _versions : VEq(w, d)

\* A deprecated version was removed while another version stays deprecated.
C1_Witness ==
    /\ last.op = "remove_version"
    /\ last.ret = "True"
    /\ \E v \in last.arg : \E d \in pre.deprecated : VEq(d, v)
    /\ _deprecated_versions # {}

\* C29: when add_version(v) follows a remove_version(v) that removed v,
\* v is registered and not deprecated afterwards (is_valid(v) is true),
\* also when v was deprecated before it was removed.
C29_DeprecationDoesNotSurviveRemoval ==
    last.readds # "no" =>
        /\ last.op = "add_version"
        /\ last.ret = "True"
        /\ \A v \in last.arg :
              /\ \E w \in _versions : VEq(w, v)
              /\ ~\E d \in _deprecated_versions : VEq(d, v)
              /\ is_valid(v)

\* A deprecated version was removed and added again, under another build
\* tag, and is valid.
C29_Witness ==
    /\ last.readds = "deprecated"
    /\ \A v \in last.arg : is_valid(v) /\ v.build # <<>>
    /\ \E d \in pre.versions : d.prerelease # <<>>

\* C30: deprecate_version(v) and undeprecate_version(v) return false and
\* change nothing when v is not registered; when v is registered they
\* return true, leave versions and default_version as they were, and
\* change the deprecation status of v only. Deprecating the default leaves
\* it the default.
C30_DeprecationFrame ==
    last.op \in {"deprecate_version", "undeprecate_version"} =>
        \A v \in last.arg :
            /\ _versions = pre.versions
            /\ _default_version = pre.default
            /\ IF ~\E w \in pre.versions : VEq(w, v)
               THEN last.ret = "False" /\ Registry = pre
               ELSE /\ last.ret = "True"
                    /\ is_deprecated(v) <=> last.op = "deprecate_version"
                    /\ \A w \in Versions :
                          ~VEq(w, v) =>
                             (is_deprecated(w) <=>
                                 \E d \in pre.deprecated : VEq(d, w))

\* The default version was deprecated and is still the default, so the
\* default names a version that is not valid; another version stays as it
\* was.
C30_Witness ==
    /\ last.op = "deprecate_version"
    /\ last.ret = "True"
    /\ \A v \in last.arg :
          /\ \E d \in _default_version : VEq(d, v)
          /\ ~is_valid(v)
    /\ _default_version = pre.default
    /\ Cardinality(_versions) = 2
    /\ Cardinality(_deprecated_versions) = 1

\* C2: after any sequence of registry operations default_version is unset
\* or a registered version.
C2_DefaultRegistered ==
    \A d \in _default_version : \E w \in _versions : VEq(w, d)

\* The default version was removed while other versions remain registered.
C2_Witness ==
    /\ last.op = "remove_version"
    /\ \E v \in last.arg : \E d \in pre.default : VEq(d, v)
    /\ _versions # {}
    /\ _default_version = None

\* C4 as stated: the first add_version on an empty registry makes the
\* version the default, and every later add_version without set_default
\* leaves default_version unchanged.
C4_Original ==
    (last.op = "add_version" /\ ~last.set_default) =>
        IF pre.versions = {}
        THEN _default_version = last.arg
        ELSE _default_version = pre.default

\* C4 (amended): the first add_version on an empty registry makes the
\* version the default even without set_default; a later add_version
\* without set_default leaves default_version unchanged whenever a default
\* is set when the call is made or the version is already registered, and
\* makes the added version the default when no default is set.
C4_DefaultAssignment ==
    (last.op = "add_version" /\ ~last.set_default) =>
        IF pre.versions = {}
        THEN last.ret = "True" /\ _default_version = last.arg
        ELSE IF pre.default # None
                \/ \E v \in last.arg : \E w \in pre.versions : VEq(w, v)
        THEN _default_version = pre.default
        ELSE _default_version = last.arg

\* A new version was added without set_default to a registry that has a
\* default: the default stays.
C4_Witness ==
    /\ last.op = "add_version"
    /\ ~last.set_default
    /\ last.ret = "True"
    /\ pre.versions # {}
    /\ pre.default # None
    /\ _default_version = pre.default
    /\ _default_version # last.arg

\* C5: add_version of a registered version returns false and changes
\* nothing, set_default or not; add_version of an unregistered version
\* returns true; and no version is registered more than once.
C5_AddIdempotent ==
    /\ \A v \in Versions : Cardinality({w \in _versions : VEq(w, v)}) <= 1
    /\ last.op = "add_version" =>
         \A v \in last.arg :
            IF \E w \in pre.versions : VEq(w, v)
            THEN last.ret = "False" /\ Registry = pre
            ELSE last.ret = "True" /\ \E w \in _versions : VEq(w, v)

\* add_version(v, set_default=true) of a version registered under another
\* build, while another version is the default.
C5_Witness ==
    /\ last.op = "add_version"
    /\ last.set_default
    /\ last.ret = "False"
    /\ \A v \in last.arg : v \notin _versions /\ ~\E d \in _default_version : VEq(d, v)
    /\ _default_version # None

\* C6: remove_version of an unregistered version returns false and changes
\* nothing; otherwise it returns true, removes the version from versions
\* and deprecated_versions, unsets the default exactly when the version was
\* the default, and leaves every other version as it was.
C6_RemoveFrame ==
    last.op = "remove_version" =>
        \A v \in last.arg :
            IF ~\E w \in pre.versions : VEq(w, v)
            THEN last.ret = "False" /\ Registry = pre
            ELSE /\ last.ret = "True"
                 /\ _versions = {w \in pre.versions : ~VEq(w, v)}
                 /\ _deprecated_versions = {w \in pre.deprecated : ~VEq(w, v)}
                 /\ _default_version =
                        IF \E d \in pre.default : VEq(d, v)
                        THEN None ELSE pre.default

\* The default, deprecated version was removed; another registered version
\* is deprecated and stays so, and none is promoted.
C6_Witness ==
    /\ last.op = "remove_version"
    /\ last.ret = "True"
    /\ \E v \in last.arg :
          /\ \E d \in pre.default : VEq(d, v)
          /\ \E d \in pre.deprecated : VEq(d, v)
    /\ _deprecated_versions # {}
    /\ _default_version = None

\* C7: setting default_version to an unregistered version raises (the
\* registry's "not found in registry" ValueError) and leaves versions,
\* deprecated_versions and the previous default unchanged.
C7_SetDefaultUnknown ==
    last.op = "default_version" =>
        \A v \in last.arg :
            (~\E w \in pre.versions : VEq(w, v)) =>
                last.ret = "ValueError" /\ Registry = pre

\* The setter raised on a registry that has versions and a default.
C7_Witness ==
    /\ last.op = "default_version"
    /\ last.ret = "ValueError"
    /\ _versions # {}
    /\ _deprecated_versions # {}
    /\ _default_version # None

\* C8: clear() leaves versions and deprecated_versions empty and
\* default_version unset, and on such a registry the next add_version
\* becomes the default and nothing is reported deprecated.
C8_ClearResets ==
    /\ last.op = "clear" => Registry = Fresh
    /\ (last.op = "add_version" /\ pre = Fresh) =>
          /\ _default_version = last.arg
          /\ \A v \in Versions : ~is_deprecated(v)

\* clear() ran on a registry with a default and a deprecated version.
C8_Witness ==
    /\ last.op = "clear"
    /\ pre.deprecated # {}
    /\ pre.default # None
    /\ Cardinality(pre.versions) >= 2

\* C9: latest_version is the greatest registered, non-deprecated version,
\* and none when there is no such version.
C9_LatestVersion ==
    LET valid == {v \in _versions : ~\E d \in _deprecated_versions : VEq(d, v)}
    IN IF valid = {}
       THEN latest_version = None
       ELSE \E m \in valid :
               /\ latest_version = {m}
               /\ \A v \in valid : VCmp(v, m) <= 0

\* The greatest registered version is deprecated and the latest version is
\* a prerelease below it, with a lower release registered as well.
C9_Witness ==
    /\ \E d \in _deprecated_versions : \A v \in _versions : VCmp(v, d) <= 0
    /\ \E m \in latest_version :
          /\ m.prerelease # <<>>
          /\ \E v \in _versions : VCmp(v, m) < 0

(***************************************************************************)
(* Texts: Python str as sequences of one-character strings.                *)
(***************************************************************************)
Digits == {"0", "1", "2", "3", "4", "5", "6", "7", "8", "9"}

Letters ==
    {"a", "b", "c", "d", "e", "f", "g", "h", "i", "j", "k", "l", "m",
     "n", "o", "p", "q", "r", "s", "t", "u", "v", "w", "x", "y", "z",
     "A", "B", "C", "D", "E", "F", "G", "H", "I", "J", "K", "L", "M",
     "N", "O", "P", "Q", "R", "S", "T", "U", "V", "W", "X", "Y", "Z"}

DigitVal(c) ==
    CASE c = "0" -> 0 [] c = "1" -> 1 [] c = "2" -> 2 [] c = "3" -> 3
      [] c = "4" -> 4 [] c = "5" -> 5 [] c = "6" -> 6 [] c = "7" -> 7
      [] c = "8" -> 8 [] c = "9" -> 9

\* int(s) of a text of digits
RECURSIVE ToInt(_)
ToInt(s) ==
    IF s = <<>> THEN 0
    ELSE 10 * ToInt(SubSeq(s, 1, Len(s) - 1)) + DigitVal(s[Len(s)])

\* The first position of character c in s, 0 when there is none.
IndexOf(s, c) ==
    IF \E i \in 1..Len(s) : s[i] = c
    THEN CHOOSE i \in 1..Len(s) : s[i] = c /\ \A j \in 1..(i - 1) : s[j] # c
    ELSE 0

\* s.split(c)
RECURSIVE Split(_, _)
Split(s, c) ==
    LET i == IndexOf(s, c)
    IN IF i = 0 THEN <<s>>
       ELSE <<SubSeq(s, 1, i - 1)>> \o Split(SubSeq(s, i + 1, Len(s)), c)

\* s.split(c, 1)
Split1(s, c) ==
    LET i == IndexOf(s, c)
    IN IF i = 0 THEN <<s>>
       ELSE <<SubSeq(s, 1, i - 1), SubSeq(s, i + 1, Len(s))>>

\* s.lstrip(c)
RECURSIVE LStrip(_, _)
LStrip(s, c) ==
    IF s # <<>> /\ Head(s) = c THEN LStrip(Tail(s), c) ELSE s

\* s.startswith(t)
StartsWith(s, t) == Len(s) >= Len(t) /\ SubSeq(s, 1, Len(t)) = t

(***************************************************************************)
(* semver.Version.parse: major.minor.patch[-prerelease][+build], numbers   *)
(* without leading zeros.  {} stands for the ValueError it raises.         *)
(***************************************************************************)
\* 0|[1-9]\d*
IsNumber(s) ==
    /\ s # <<>>
    /\ \A i \in 1..Len(s) : s[i] \in Digits
    /\ (Len(s) > 1 => s[1] # "0")

\* 0|[1-9]\d*|\d*[a-zA-Z-][0-9a-zA-Z-]*
IsPrereleaseId(s) ==
    /\ s # <<>>
    /\ \A i \in 1..Len(s) : s[i] \in Digits \cup Letters \cup {"-"}
    /\ ((\A i \in 1..Len(s) : s[i] \in Digits) => IsNumber(s))

\* [0-9a-zA-Z-]+
IsBuildId(s) ==
    /\ s # <<>>
    /\ \A i \in 1..Len(s) : s[i] \in Digits \cup Letters \cup {"-"}

VersionParse(text) ==
    LET plus == IndexOf(text, "+")
        front == IF plus = 0 THEN text ELSE SubSeq(text, 1, plus - 1)
        build == IF plus = 0 THEN <<>> ELSE SubSeq(text, plus + 1, Len(text))
        dash == IndexOf(front, "-")
        core == IF dash = 0 THEN front ELSE SubSeq(front, 1, dash - 1)
        prerelease == IF dash = 0 THEN <<>> ELSE SubSeq(front, dash + 1, Len(front))
        numbers == Split(core, ".")
        pre_ids == Split(prerelease, ".")
        build_ids == Split(build, ".")
    IN IF /\ Len(numbers) = 3
          /\ \A i \in 1..3 : IsNumber(numbers[i])
          /\ (dash # 0 => \A i \in 1..Len(pre_ids) : IsPrereleaseId(pre_ids[i]))
          /\ (plus # 0 => \A i \in 1..Len(build_ids) : IsBuildId(build_ids[i]))
       THEN {[major |-> ToInt(numbers[1]), minor |-> ToInt(numbers[2]),
              patch |-> ToInt(numbers[3]), prerelease |-> prerelease,
              build |-> build]}
       ELSE {}

(***************************************************************************)
(* VersionMiddleware.                                                      *)
(***************************************************************************)
\* Requests one middleware instance serves in a run.
MaxRequests == 2

Acme == <<"a", "c", "m", "e">>
Other == <<"o", "t", "h", "e", "r">>
Json == <<"j", "s", "o", "n">>
TextHtml == <<"t", "e", "x", "t", "/", "h", "t", "m", "l">>

\* "accept/vnd.<vendor>.v<token>"
VendorTree(vendor, token) ==
    <<"a", "c", "c", "e", "p", "t", "/", "v", "n", "d", ".">>
        \o vendor \o <<".", "v">> \o token

\* "accept/vnd.<vendor>.v<token>+<subtype>"
AcceptValue(vendor, token, subtype) ==
    VendorTree(vendor, token) \o <<"+">> \o subtype

\* Version tokens a client writes after the "v".
Tokens ==
    {<<"2">>, <<"2", ".", "1">>, <<"1", ".", "2", ".", "3", "-", "r", "c">>,
     <<"2", "-", "r", "c">>, <<"1", ".", "0", ".", "0", "+", "b">>,
     <<"2", "+", "b">>, <<"v", "2">>, <<"x">>}

\* Accept header values of the model's requests.
AcceptValues ==
    {TextHtml, VendorTree(Acme, <<"2">>), AcceptValue(Other, <<"2">>, Json)}
        \cup {AcceptValue(Acme, t, Json) : t \in Tokens}

Header(name, value) == [name |-> name, value |-> value]

\* scope["headers"]: none, one Accept header, another header, or a
\* repeated Accept header.
HeaderLists ==
    {<<>>, <<Header("host", <<"x">>)>>}
        \cup {<<Header("accept", a)>> : a \in AcceptValues}
        \cup {<<Header("accept", AcceptValue(Acme, <<"2">>, Json)),
                Header("accept", TextHtml)>>}

ScopeTypes == {"http", "websocket", "lifespan"}

\* The requests of the model: HTTP with every header list, WebSocket and
\* lifespan with a few of them.
Arrivals ==
    {<<"http", h>> : h \in HeaderLists}
        \cup {<<"websocket", h>> : h \in
                 {<<>>} \cup {<<Header("accept", a)>> : a \in
                    {AcceptValue(Acme, <<"2">>, Json),
                     AcceptValue(Other, <<"2">>, Json),
                     AcceptValue(Acme, <<"2", ".", "1">>, Json),
                     AcceptValue(Acme, <<"x">>, Json)}}}
        \cup {<<"lifespan", h>> : h \in
                 {<<>>, <<Header("accept", AcceptValue(Acme, <<"2">>, Json))>>}}

\* The scope the server hands over: no version keys yet ({} is absent).
NewScope(type, headers) ==
    [type |-> type, headers |-> headers,
     latest_version |-> None, requested_version |-> None]

\* A request: its scope, the scopes the downstream application was called
\* with, whether __call__ raised, whether it read scope["headers"], and
\* what the application read from the scope while it ran.
NewRequest(type, headers) ==
    [scope |-> NewScope(type, headers), app |-> <<>>, raised |-> FALSE,
     headers_read |-> FALSE, read |-> FALSE, seen |-> None]

\* __init__: the configurations the model runs.
Middlewares ==
    {[vendor_prefix |-> Acme,
      latest_version |-> {[major |-> 1, minor |-> 0, patch |-> 0,
                           prerelease |-> <<>>, build |-> <<>>]}],
     [vendor_prefix |-> Other,
      latest_version |-> {[major |-> 3, minor |-> 0, patch |-> 0,
                           prerelease |-> <<"r", "c">>, build |-> <<>>]}]}

InitMw ==
    /\ _versions = {}
    /\ _default_version = None
    /\ _deprecated_versions = {}
    /\ last = NoCall
    /\ pre = Fresh
    /\ nops = 0
    /\ pc = "idle"
    /\ ver_obj = None
    /\ rpc = "idle"
    /\ robs = NoObs
    /\ mw \in Middlewares
    /\ reqs = <<>>
    /\ routes = <<>>
    /\ manager = NoManager
    /\ runs = <<>>
    /\ handler = Undecorated
    /\ decl = NoDeclaration
    /\ parse = NoText
    /\ apc = "idle"
    /\ observed = {}

\* dict(headers)[name]: the last value given for the name, {} when absent.
DictGet(headers, name) ==
    LET at == {i \in 1..Len(headers) : headers[i].name = name}
    IN IF at = {} THEN {}
       ELSE {headers[CHOOSE i \in at : \A j \in at : j <= i].value}

\* accept_header_regex.match: the text of group "version", {} for no match.
\* The pattern is accept/vnd.<vendor_prefix>.v<version>+<subtype>, the
\* vendor prefix taken literally; the version runs to the last "+".
AcceptMatch(vendor_prefix, accept_header) ==
    LET lit == VendorTree(vendor_prefix, <<>>)
        rest == SubSeq(accept_header, Len(lit) + 1, Len(accept_header))
        plus == {i \in 1..Len(rest) : rest[i] = "+"}
        cut == CHOOSE i \in plus : \A j \in plus : j <= i
    IN IF StartsWith(accept_header, lit) /\ plus # {} /\ cut > 1
       THEN {SubSeq(rest, 1, cut - 1)}
       ELSE {}

\* Faulty variant: missing minor and patch numbers are not filled in.
Normalize_no_fill(version_str) == LStrip(version_str, "v")

\* Lines 61-76: the text handed to Version.parse.
Normalize(version_str) ==
    LET normalized == LStrip(version_str, "v")
        parts == Split1(normalized, "-")
        prerelease == IF Len(parts) > 1 THEN parts[2] ELSE <<>>
        version_numbers == Split(parts[1], ".")
        version_part ==
            IF Len(version_numbers) = 1
            THEN version_numbers[1] \o <<".", "0", ".", "0">>
            ELSE IF Len(version_numbers) = 2
            THEN version_numbers[1] \o <<".">> \o version_numbers[2] \o <<".", "0">>
            ELSE parts[1]
    IN IF prerelease # <<>>
       THEN version_part \o <<"-">> \o prerelease
       ELSE version_part

\* Lines 53-81: the requested version the Accept header yields, {} when the
\* header is absent, does not match or does not parse.
Negotiated(headers) ==
    UNION {UNION {VersionParse(Normalize(version_str)) :
                    version_str \in AcceptMatch(mw.vendor_prefix, accept_header)} :
             accept_header \in DictGet(headers, "accept")}

\* The server hands a request to the middleware.
receive(type, headers) ==
    /\ Len(reqs) < MaxRequests
    /\ reqs' = Append(reqs, NewRequest(type, headers))
    /\ UNCHANGED <<outsideMiddleware, mw>>

\* Faulty variant: requested_version is only written on a successful parse.
mw_call_no_default(r) ==
    /\ reqs[r].app = <<>> /\ ~reqs[r].raised
    /\ LET scope == reqs[r].scope
           negotiated == Negotiated(scope.headers)
           out == IF scope.type \notin {"http", "websocket"}
                  THEN scope
                  ELSE [scope EXCEPT
                          !.latest_version = mw.latest_version,
                          !.requested_version = negotiated]
       IN reqs' = [reqs EXCEPT ![r].scope = out, ![r].app = <<out>>,
                               ![r].headers_read =
                                   scope.type \in {"http", "websocket"}]
    /\ UNCHANGED <<outsideMiddleware, mw>>

\* Faulty variant: Version.parse's ValueError is not caught.
mw_call_no_except(r) ==
    /\ reqs[r].app = <<>> /\ ~reqs[r].raised
    /\ LET scope == reqs[r].scope
           accept == DictGet(scope.headers, "accept")
           matched == UNION {AcceptMatch(mw.vendor_prefix, a) : a \in accept}
           negotiated == Negotiated(scope.headers)
           defaulted == [scope EXCEPT
                           !.latest_version = mw.latest_version,
                           !.requested_version = mw.latest_version]
       IN IF scope.type \notin {"http", "websocket"}
          THEN reqs' = [reqs EXCEPT ![r].app = <<scope>>]
          ELSE IF matched # {} /\ negotiated = {}
          THEN reqs' = [reqs EXCEPT ![r].scope = defaulted, ![r].raised = TRUE,
                                    ![r].headers_read = TRUE]
          ELSE LET out == [defaulted EXCEPT
                             !.requested_version =
                                 IF negotiated # {} THEN negotiated
                                 ELSE mw.latest_version]
               IN reqs' = [reqs EXCEPT ![r].scope = out, ![r].app = <<out>>,
                               ![r].headers_read =
                                   scope.type \in {"http", "websocket"}]
    /\ UNCHANGED <<outsideMiddleware, mw>>

\* Faulty variant: the resolved version is kept on the middleware instance.
mw_call_on_self(r) ==
    /\ reqs[r].app = <<>> /\ ~reqs[r].raised
    /\ LET scope == reqs[r].scope
           negotiated == Negotiated(scope.headers)
           resolved == IF negotiated # {} THEN negotiated ELSE mw.latest_version
           out == IF scope.type \notin {"http", "websocket"}
                  THEN scope
                  ELSE [scope EXCEPT
                          !.latest_version = mw.latest_version,
                          !.requested_version = resolved]
       IN /\ reqs' = [reqs EXCEPT ![r].scope = out, ![r].app = <<out>>,
                               ![r].headers_read =
                                   scope.type \in {"http", "websocket"}]
          /\ mw' = IF scope.type \notin {"http", "websocket"} THEN mw
                   ELSE [mw EXCEPT !.latest_version = resolved]
    /\ UNCHANGED outsideMiddleware

\* Faulty variant: scopes of every type are handled like HTTP scopes.
mw_call_every_type(r) ==
    /\ reqs[r].app = <<>> /\ ~reqs[r].raised
    /\ LET scope == reqs[r].scope
           negotiated == Negotiated(scope.headers)
           out == [scope EXCEPT
                     !.latest_version = mw.latest_version,
                     !.requested_version =
                         IF negotiated # {} THEN negotiated
                         ELSE mw.latest_version]
       IN reqs' = [reqs EXCEPT ![r].scope = out, ![r].app = <<out>>,
                               ![r].headers_read = TRUE]
    /\ UNCHANGED <<outsideMiddleware, mw>>

\* VersionMiddleware.__call__ on request r, up to its await: the scope is
\* updated in place and the downstream application is called with it.
\* Version.parse's ValueError (Negotiated = {}) is caught and passed over.
mw_call(r) ==
    /\ reqs[r].app = <<>> /\ ~reqs[r].raised
    /\ LET scope == reqs[r].scope
           negotiated == Negotiated(scope.headers)
           out == IF scope.type \notin {"http", "websocket"}
                  THEN scope
                  ELSE [scope EXCEPT
                          !.latest_version = mw.latest_version,
                          !.requested_version =
                              IF negotiated # {} THEN negotiated
                              ELSE mw.latest_version]
       IN reqs' = [reqs EXCEPT ![r].scope = out, ![r].app = <<out>>,
                               ![r].headers_read =
                                   scope.type \in {"http", "websocket"}]
    /\ UNCHANGED <<outsideMiddleware, mw>>

\* The downstream application, running while other requests are handled,
\* reads scope["requested_version"].
app_read(r) ==
    /\ reqs[r].app # <<>> /\ ~reqs[r].read
    /\ reqs' = [reqs EXCEPT ![r].read = TRUE,
                            ![r].seen = reqs[r].scope.requested_version]
    /\ UNCHANGED <<outsideMiddleware, mw>>

Receive == \E a \in Arrivals : receive(a[1], a[2])
MwCall == \E r \in 1..Len(reqs) : mw_call(r)
AppRead == \E r \in 1..Len(reqs) : app_read(r)

NextMw ==
    \/ Receive
    \/ MwCall
    \/ AppRead

SpecMw == InitMw /\ [][NextMw]_vars

\* C10: an HTTP or WebSocket request with no Accept header, or with one
\* that does not match the vendor tree of the configured vendor_prefix,
\* reaches the downstream application with requested_version equal to the
\* configured latest_version.
C10_NegotiationFallback ==
    \A r \in 1..Len(reqs) :
        LET given == reqs[r].scope.headers
            accepts == {i \in 1..Len(given) : given[i].name = "accept"}
            unmatched ==
                \/ accepts = {}
                \/ \A t \in Tokens \cup {<<>>} : \A sub \in {<<>>, Json} :
                      given[CHOOSE i \in accepts : \A j \in accepts : j <= i].value
                          # AcceptValue(mw.vendor_prefix, t, sub)
        IN (reqs[r].scope.type \in {"http", "websocket"} /\ unmatched) =>
               \/ reqs[r].app = <<>>
               \/ /\ Len(reqs[r].app) = 1
                  /\ reqs[r].app[1].requested_version = mw.latest_version
                  /\ reqs[r].app[1].latest_version = mw.latest_version
                  /\ reqs[r].scope = reqs[r].app[1]

\* Served: an HTTP request without Accept header, and a WebSocket request
\* whose Accept header names another vendor.
C10_Witness ==
    /\ \E r \in 1..Len(reqs) :
          /\ reqs[r].scope.type = "http"
          /\ reqs[r].scope.headers = <<>>
          /\ Len(reqs[r].app) = 1
          /\ reqs[r].app[1].requested_version = mw.latest_version
    /\ \E r \in 1..Len(reqs) :
          /\ reqs[r].scope.type = "websocket"
          /\ reqs[r].scope.headers \in
                {<<Header("accept", AcceptValue(Other, <<"2">>, Json))>>,
                 <<Header("accept", AcceptValue(Acme, <<"2">>, Json))>>}
          /\ AcceptMatch(mw.vendor_prefix, reqs[r].scope.headers[1].value) = {}
          /\ Len(reqs[r].app) = 1
          /\ reqs[r].app[1].requested_version = mw.latest_version

\* C11: an HTTP or WebSocket request whose Accept header is
\* accept/vnd.<vendor_prefix>.v<version>+<subtype>, <version> being a bare
\* major, a major.minor or a full version with optional prerelease or
\* build, reaches the downstream application with requested_version equal
\* to the version <version> denotes, missing minor and patch read as 0, and
\* with latest_version equal to the configured latest_version.  (With a
\* repeated Accept header, the header is the one dict(headers) keeps.)
C11_NegotiatedVersion ==
    \A r \in 1..Len(reqs) : \A t \in Tokens :
        LET build == Split1(t, "+")
            pre_ == Split1(build[1], "-")
            core == Split(pre_[1], ".")
            shaped ==
                /\ \A i \in 1..Len(core) : IsNumber(core[i])
                /\ \/ Len(core) \in {1, 2} /\ Len(build) = 1 /\ Len(pre_) = 1
                   \/ Len(core) = 3
            denoted ==
                [major |-> ToInt(core[1]),
                 minor |-> IF Len(core) >= 2 THEN ToInt(core[2]) ELSE 0,
                 patch |-> IF Len(core) >= 3 THEN ToInt(core[3]) ELSE 0,
                 prerelease |-> IF Len(pre_) > 1 THEN pre_[2] ELSE <<>>,
                 build |-> IF Len(build) > 1 THEN build[2] ELSE <<>>]
        IN (/\ reqs[r].scope.type \in {"http", "websocket"}
            /\ shaped
            /\ DictGet(reqs[r].scope.headers, "accept")
                  = {AcceptValue(mw.vendor_prefix, t, Json)}
            /\ reqs[r].app # <<>>) =>
               /\ reqs[r].app[1].requested_version = {denoted}
               /\ reqs[r].app[1].latest_version = mw.latest_version

\* Served: a request asking for "2" answered with 2.0.0 and one asking for
\* "2.1" answered with 2.1.0, the configured latest version being another.
C11_Witness ==
    /\ \E r \in 1..Len(reqs) :
          /\ reqs[r].scope.type \in {"http", "websocket"}
          /\ reqs[r].scope.headers
                = <<Header("accept", AcceptValue(mw.vendor_prefix, <<"2">>, Json))>>
          /\ Len(reqs[r].app) = 1
          /\ reqs[r].app[1].requested_version
                = {[major |-> 2, minor |-> 0, patch |-> 0,
                    prerelease |-> <<>>, build |-> <<>>]}
          /\ reqs[r].app[1].latest_version = mw.latest_version
    /\ \E r \in 1..Len(reqs) :
          /\ reqs[r].scope.type \in {"http", "websocket"}
          /\ reqs[r].scope.headers
                = <<Header("accept",
                           AcceptValue(mw.vendor_prefix, <<"2", ".", "1">>, Json))>>
          /\ Len(reqs[r].app) = 1
          /\ reqs[r].app[1].requested_version
                = {[major |-> 2, minor |-> 1, patch |-> 0,
                    prerelease |-> <<>>, build |-> <<>>]}
          /\ reqs[r].app[1].requested_version # mw.latest_version
          /\ reqs[r].app[1].latest_version = mw.latest_version

\* C12: negotiation never fails a request: whatever its Accept header,
\* __call__ raises no error and calls the downstream application exactly
\* once, and when the header matches the vendor pattern with a version
\* token that does not parse, requested_version is the configured
\* latest_version.
C12_NegotiationNonFatal ==
    \A r \in 1..Len(reqs) :
        /\ ~reqs[r].raised
        /\ Len(reqs[r].app) <= 1
        /\ reqs[r].read => Len(reqs[r].app) = 1
        /\ (/\ reqs[r].scope.type \in {"http", "websocket"}
            /\ reqs[r].app # <<>>
            /\ \E t \in {<<"x">>, <<"2", "+", "b">>} :
                  DictGet(reqs[r].scope.headers, "accept")
                      = {AcceptValue(mw.vendor_prefix, t, Json)}) =>
               /\ reqs[r].app[1].requested_version = mw.latest_version
               /\ reqs[r].scope.requested_version = mw.latest_version

\* Served without error: an HTTP and a WebSocket request whose Accept
\* header matches the vendor pattern with the token "x".
C12_Witness ==
    \A type \in {"http", "websocket"} :
        \E r \in 1..Len(reqs) :
            /\ reqs[r].scope.type = type
            /\ reqs[r].scope.headers
                  = <<Header("accept", AcceptValue(mw.vendor_prefix, <<"x">>, Json))>>
            /\ AcceptMatch(mw.vendor_prefix, reqs[r].scope.headers[1].value)
                  = {<<"x">>}
            /\ ~reqs[r].raised
            /\ Len(reqs[r].app) = 1
            /\ reqs[r].app[1].requested_version = mw.latest_version

\* C13: with requests handled concurrently by one middleware, what the
\* downstream application reads as requested_version is what the
\* middleware resolved for that very request, two requests of the same
\* type and Accept header read the same version whatever was resolved for
\* other requests in between, and no step changes the middleware's
\* configuration.
C13_RequestIsolation ==
    /\ [](\A r \in 1..Len(reqs) :
            /\ reqs[r].read =>
                  /\ reqs[r].seen = reqs[r].app[1].requested_version
                  /\ reqs[r].scope.type \in {"http", "websocket"} =>
                        reqs[r].seen \in
                            {mw.latest_version} \cup
                                {Negotiated(reqs[r].scope.headers)}
            /\ \A q \in 1..Len(reqs) :
                  (/\ reqs[r].read /\ reqs[q].read
                   /\ reqs[r].scope.type = reqs[q].scope.type
                   /\ DictGet(reqs[r].scope.headers, "accept")
                         = DictGet(reqs[q].scope.headers, "accept")) =>
                      reqs[r].seen = reqs[q].seen)
    /\ [][mw' = mw]_vars

\* Two HTTP requests in flight together, both served before either is
\* read downstream, have read different versions.
C13_Witness ==
    \E r, q \in 1..Len(reqs) :
        /\ reqs[r].scope.type = "http" /\ reqs[q].scope.type = "http"
        /\ reqs[r].read /\ reqs[q].read
        /\ reqs[r].seen = mw.latest_version
        /\ reqs[q].seen # mw.latest_version
        /\ reqs[q].seen = Negotiated(reqs[q].scope.headers)

\* C26: a scope whose type is neither "http" nor "websocket" reaches the
\* downstream application unchanged: neither latest_version nor
\* requested_version is added, and the headers are not read.
C26_OtherScopesPassThrough ==
    \A r \in 1..Len(reqs) : \A a \in Arrivals :
        (/\ reqs[r].scope.type \notin {"http", "websocket"}
         /\ reqs[r].scope.type = a[1]
         /\ reqs[r].scope.headers = a[2]) =>
            /\ reqs[r].scope =
                  [type |-> a[1], headers |-> a[2],
                   latest_version |-> None, requested_version |-> None]
            /\ \A i \in 1..Len(reqs[r].app) : reqs[r].app[i] = reqs[r].scope
            /\ ~reqs[r].headers_read
            /\ ~reqs[r].raised

\* A lifespan scope with a matching Accept header was handed on as it
\* came, beside an HTTP request that got its versions.
C26_Witness ==
    /\ \E r \in 1..Len(reqs) :
          /\ reqs[r].scope.type = "lifespan"
          /\ reqs[r].scope.headers # <<>>
          /\ Len(reqs[r].app) = 1
          /\ reqs[r].app[1].requested_version = None
          /\ reqs[r].app[1].latest_version = None
    /\ \E r \in 1..Len(reqs) :
          /\ reqs[r].scope.type = "http"
          /\ Len(reqs[r].app) = 1
          /\ reqs[r].headers_read
          /\ reqs[r].app[1].requested_version # None

(***************************************************************************)
(* The registry under threads (SpecConc).  VersionRegistry takes no lock,  *)
(* so a thread in remove_version can be preempted between its statements   *)
(* while another thread calls the read methods.                            *)
(***************************************************************************)
\* Registries a run of the operations above leaves behind.
ConsistentRegistries ==
    {r \in [versions : SUBSET Versions,
            deprecated : SUBSET Versions,
            default : {None} \cup {{v} : v \in Versions}] :
        /\ \A a, b \in r.versions : VEq(a, b) => a = b
        /\ r.deprecated \subseteq r.versions
        /\ r.default \subseteq r.versions}

InitConc ==
    /\ \E r \in ConsistentRegistries :
          /\ _versions = r.versions
          /\ _deprecated_versions = r.deprecated
          /\ _default_version = r.default
    /\ last = NoCall
    /\ pre = Fresh
    /\ nops = 0
    /\ pc = "idle"
    /\ ver_obj = None
    /\ rpc = "idle"
    /\ robs = NoObs
    /\ mw = NoMiddleware
    /\ reqs = <<>>
    /\ routes = <<>>
    /\ manager = NoManager
    /\ runs = <<>>
    /\ handler = Undecorated
    /\ decl = NoDeclaration
    /\ parse = NoText
    /\ apc = "idle"
    /\ observed = {}

\* remove_version, lines 81-84: bind ver_obj, return False when it is absent.
remove_begin(v) ==
    /\ pc = "idle"
    /\ ver_obj' = {v}
    /\ pc' = IF ~SetHas(_versions, v) THEN "return" ELSE "discard_versions"
    /\ UNCHANGED <<regVars, histVars, outsideRegistry, rpc, robs>>

\* line 86
remove_discard_versions ==
    /\ pc = "discard_versions"
    /\ _versions' = UNION {SetDiscard(_versions, v) : v \in ver_obj}
    /\ pc' = "discard_deprecated"
    /\ UNCHANGED <<_deprecated_versions, _default_version, histVars, outsideRegistry, ver_obj, rpc, robs>>

\* line 87
remove_discard_deprecated ==
    /\ pc = "discard_deprecated"
    /\ _deprecated_versions' = UNION {SetDiscard(_deprecated_versions, v) : v \in ver_obj}
    /\ pc' = "unset_default"
    /\ UNCHANGED <<_versions, _default_version, histVars, outsideRegistry, ver_obj, rpc, robs>>

\* lines 89-90
remove_unset_default ==
    /\ pc = "unset_default"
    /\ _default_version' =
          IF \E d \in _default_version, v \in ver_obj : VEq(d, v)
          THEN None ELSE _default_version
    /\ pc' = "return"
    /\ UNCHANGED <<_versions, _deprecated_versions, histVars, outsideRegistry, ver_obj, rpc, robs>>

\* lines 84, 92
remove_return ==
    /\ pc = "return"
    /\ pc' = "idle"
    /\ ver_obj' = None
    /\ UNCHANGED <<regVars, histVars, outsideRegistry, rpc, robs>>

\* The reading thread: has_version(v), then is_deprecated(v), then the
\* default_version getter, each call one read of the registry.
read_has_version(v) ==
    /\ rpc = "idle"
    /\ robs' = [NoObs EXCEPT !.arg = {v}, !.has = has_version(v)]
    /\ rpc' = "is_deprecated"
    /\ UNCHANGED <<regVars, histVars, outsideRegistry, pc, ver_obj>>

read_is_deprecated ==
    /\ rpc = "is_deprecated"
    /\ robs' = [robs EXCEPT !.deprecated = \E v \in robs.arg : is_deprecated(v)]
    /\ rpc' = "default_version"
    /\ UNCHANGED <<regVars, histVars, outsideRegistry, pc, ver_obj>>

read_default_version ==
    /\ rpc = "default_version"
    /\ robs' = [robs EXCEPT
                  !.default = \E v \in robs.arg, d \in _default_version : VEq(d, v)]
    /\ rpc' = "done"
    /\ UNCHANGED <<regVars, histVars, outsideRegistry, pc, ver_obj>>

read_again ==
    /\ rpc = "done"
    /\ rpc' = "idle"
    /\ robs' = NoObs
    /\ UNCHANGED <<regVars, histVars, outsideRegistry, pc, ver_obj>>

RemoveBegin == \E v \in Versions : remove_begin(v)
ReadHasVersion == \E v \in Versions : read_has_version(v)

NextConc ==
    \/ RemoveBegin
    \/ remove_discard_versions
    \/ remove_discard_deprecated
    \/ remove_unset_default
    \/ remove_return
    \/ ReadHasVersion
    \/ read_is_deprecated
    \/ read_default_version
    \/ read_again

SpecConc == InitConc /\ [][NextConc]_vars

\* C3: while remove_version(v) runs in another thread, no reader sees v
\* absent from versions and then still deprecated or still the default.
C3_RemoveAtomic ==
    (rpc = "done" /\ ~robs.has) => (~robs.deprecated /\ ~robs.default)

(***************************************************************************)
(* VersionManager (SpecMgr): apply() on an application's route table.      *)
(***************************************************************************)
MaxRoutes == 3
MaxApplies == 2

V(major, minor, patch, prerelease, build) ==
    [major |-> major, minor |-> minor, patch |-> patch,
     prerelease |-> prerelease, build |-> build]

\* The metadata a declaration binds to a handler.
VersionMetadata(path, method, version, deprecated_in, removed_in) ==
    [path |-> path, method |-> method, version |-> version,
     deprecated_in |-> deprecated_in, removed_in |-> removed_in]

\* A route of the table: its class, its path, whether it has an endpoint
\* attribute and the endpoint's __version_metadata__ ({} when it has none).
Route(kind, path, has_endpoint, version_metadata) ==
    [kind |-> kind, path |-> path, has_endpoint |-> has_endpoint,
     version_metadata |-> version_metadata]

\* The application's documentation paths (FastAPI's attributes).
App ==
    [docs_url |-> "/docs", redoc_url |-> "/redoc",
     swagger_ui_oauth2_redirect_url |-> "/docs/oauth2-redirect",
     openapi_url |-> "/openapi.json"]

\* The routes an application of the model is built from.
Routes ==
    {Route("APIRoute", "/users", TRUE,
           {VersionMetadata("/users", "GET", V(1, 0, 0, <<>>, <<>>), None, None)}),
     Route("APIRoute", "/items", TRUE,
           {VersionMetadata("/items", "GET", V(1, 5, 0, <<>>, <<>>),
                            {V(2, 0, 0, <<>>, <<>>)}, None)}),
     Route("APIRoute", "/orders", TRUE,
           {VersionMetadata("/orders", "POST", V(2, 0, 0, <<>>, <<>>),
                            None, {V(2, 0, 0, <<>>, <<>>)})}),
     Route("WebSocketRoute", "/ws", TRUE,
           {VersionMetadata("/ws", "GET", V(2, 0, 0, <<"r", "c">>, <<>>),
                            {V(1, 0, 0, <<>>, <<>>)}, {V(2, 0, 0, <<>>, <<>>)})}),
     Route("APIRoute", "/users", TRUE,
           {VersionMetadata("/users", "GET", V(2, 0, 0, <<>>, <<"b">>),
                            {V(2, 0, 0, <<>>, <<>>)}, None)}),
     Route("APIRoute", "/docs", TRUE,
           {VersionMetadata("/docs", "POST", V(1, 0, 0, <<>>, <<>>),
                            None, {V(1, 0, 0, <<>>, <<>>)})}),
     Route("APIRoute", "/old", TRUE,
           {VersionMetadata("/old", "GET", V(1, 0, 0, <<>>, <<>>),
                            {V(3, 0, 0, <<>>, <<>>)}, {V(1, 0, 0, <<>>, <<>>)})}),
     Route("APIRoute", "/health", TRUE, None),
     Route("Route", "/docs", TRUE, None),
     Route("Route", "/openapi.json", TRUE, None),
     Route("Route", "/legacy", TRUE,
           {VersionMetadata("/legacy", "GET", V(3, 0, 0, <<>>, <<>>), None, None)}),
     Route("Mount", "/static", FALSE, None)}

RECURSIVE RouteTablesOf(_)
RouteTablesOf(n) ==
    IF n = 0 THEN {<<>>}
    ELSE LET shorter == RouteTablesOf(n - 1)
         IN shorter \cup {Append(t, r) : t \in {u \in shorter : Len(u) = n - 1},
                                         r \in Routes}

\* app.routes before the manager is applied.
RouteTables == RouteTablesOf(MaxRoutes)

\* VersionManager.__init__: the arguments apply() reads.
Managers ==
    [constructed : {TRUE},
     _default_version : {<<"1", ".", "0", ".", "0">>,
                         <<"3", ".", "0", ".", "0", "-", "r", "c">>,
                         <<"2", ".", "1">>},
     _include_main_docs : BOOLEAN,
     _include_main_openapi_route : BOOLEAN,
     _original_routes : {None}]

InitMgr ==
    /\ _versions = {}
    /\ _default_version = None
    /\ _deprecated_versions = {}
    /\ last = NoCall
    /\ pre = Fresh
    /\ nops = 0
    /\ pc = "idle"
    /\ ver_obj = None
    /\ rpc = "idle"
    /\ robs = NoObs
    /\ mw = NoMiddleware
    /\ reqs = <<>>
    /\ routes \in RouteTables
    /\ manager \in Managers
    /\ runs = <<>>
    /\ handler = Undecorated
    /\ decl = NoDeclaration
    /\ parse = NoText
    /\ apc = "idle"
    /\ observed = {}

\* Faulty variant: nothing is stripped.
_strip_routes_keep_all(table) == table

\* Faulty variant: the documentation paths are kept whatever the switch says.
_strip_routes_keep_docs(table) ==
    LET paths_to_keep ==
            {App.docs_url, App.redoc_url, App.swagger_ui_oauth2_redirect_url}
                \cup (IF manager._include_main_openapi_route
                      THEN {App.openapi_url} ELSE {})
    IN SelectSeq(table, LAMBDA route : route.path \in paths_to_keep)

\* _strip_routes: the table it assigns to app.router.routes.
_strip_routes(table) ==
    LET paths_to_keep ==
            (IF manager._include_main_docs
             THEN {App.docs_url, App.redoc_url,
                   App.swagger_ui_oauth2_redirect_url}
             ELSE {})
                \cup (IF manager._include_main_openapi_route
                      THEN {App.openapi_url} ELSE {})
    IN SelectSeq(table, LAMBDA route : route.path \in paths_to_keep)

\* list.sort(key=lambda x: x.version, reverse=True): descending and stable,
\* so an element goes after the elements that are not below it.
RECURSIVE SortDescending(_)
SortDescending(metas) ==
    IF metas = <<>> THEN <<>>
    ELSE LET n == Len(metas)
             x == metas[n]
             sorted == SortDescending(SubSeq(metas, 1, n - 1))
             below == {i \in 1..Len(sorted) : VCmp(sorted[i].version, x.version) < 0}
             at == IF below = {} THEN Len(sorted) + 1
                   ELSE CHOOSE i \in below : \A j \in below : i <= j
         IN SubSeq(sorted, 1, at - 1) \o <<x>> \o SubSeq(sorted, at, Len(sorted))

\* Faulty variant: the scan takes every endpoint with metadata, whatever
\* the class of its route.
RECURSIVE Scanned_any_route(_)
Scanned_any_route(original) ==
    IF original = <<>> THEN <<>>
    ELSE LET route == Head(original)
         IN IF ~(route.has_endpoint /\ route.version_metadata # None)
            THEN Scanned_any_route(Tail(original))
            ELSE <<CHOOSE m \in route.version_metadata : TRUE>>
                     \o Scanned_any_route(Tail(original))

\* Lines 57-67: the metadata of the routes the scan does not skip.
RECURSIVE Scanned(_)
Scanned(original) ==
    IF original = <<>> THEN <<>>
    ELSE LET route == Head(original)
             endpoint_has_version_metadata ==
                 route.has_endpoint /\ route.version_metadata # None
         IN IF route.kind \notin {"APIRoute", "WebSocketRoute"}
               \/ ~endpoint_has_version_metadata
            THEN Scanned(Tail(original))
            ELSE <<CHOOSE m \in route.version_metadata : TRUE>>
                     \o Scanned(Tail(original))

\* Faulty variant: a route is classified only when the latest version is
\* above its deprecated_in or removed_in.
Classified_above(all_routes, latest) ==
    [raised |-> FALSE,
     latest_version |-> {latest},
     all_routes |-> all_routes,
     deprecated_routes |->
         SelectSeq(all_routes, LAMBDA version_info :
             /\ version_info.deprecated_in # None
             /\ \A d \in version_info.deprecated_in : VCmp(latest, d) > 0),
     removed_routes |->
         SelectSeq(all_routes, LAMBDA version_info :
             /\ version_info.removed_in # None
             /\ \A d \in version_info.removed_in : VCmp(latest, d) > 0)]

\* Faulty variant: a route found removed is not tested for deprecation.
Classified_removed_first(all_routes, latest) ==
    [raised |-> FALSE,
     latest_version |-> {latest},
     all_routes |-> all_routes,
     deprecated_routes |->
         SelectSeq(all_routes, LAMBDA version_info :
             /\ ~(/\ version_info.removed_in # None
                  /\ \A d \in version_info.removed_in : VCmp(latest, d) >= 0)
             /\ version_info.deprecated_in # None
             /\ \A d \in version_info.deprecated_in : VCmp(latest, d) >= 0),
     removed_routes |->
         SelectSeq(all_routes, LAMBDA version_info :
             /\ version_info.removed_in # None
             /\ \A d \in version_info.removed_in : VCmp(latest, d) >= 0)]

\* Lines 73-80: what _get_routes_by_version returns for a sorted scan and
\* the latest version.
Classified(all_routes, latest) ==
    [raised |-> FALSE,
     latest_version |-> {latest},
     all_routes |-> all_routes,
     deprecated_routes |->
         SelectSeq(all_routes, LAMBDA version_info :
             /\ version_info.deprecated_in # None
             /\ \A d \in version_info.deprecated_in : VCmp(latest, d) >= 0),
     removed_routes |->
         SelectSeq(all_routes, LAMBDA version_info :
             /\ version_info.removed_in # None
             /\ \A d \in version_info.removed_in : VCmp(latest, d) >= 0)]

\* Version.parse(self._default_version) raised ValueError.
Raised ==
    [raised |-> TRUE, latest_version |-> None, all_routes |-> <<>>,
     deprecated_routes |-> <<>>, removed_routes |-> <<>>]

\* Faulty variant: the scan is not sorted, the latest version is the one of
\* the first scanned route.
_get_routes_by_version_unsorted(original) ==
    LET all_routes == Scanned(original)
        parsed == VersionParse(manager._default_version)
    IN IF all_routes # <<>>
       THEN Classified(all_routes, all_routes[1].version)
       ELSE IF parsed = {} THEN Raised
       ELSE Classified(all_routes, CHOOSE v \in parsed : TRUE)

\* _get_routes_by_version on the snapshot of the table.
_get_routes_by_version(original) ==
    LET all_routes == SortDescending(Scanned(original))
        parsed == VersionParse(manager._default_version)
    IN IF all_routes # <<>>
       THEN Classified(all_routes, all_routes[1].version)
       ELSE IF parsed = {} THEN Raised
       ELSE Classified(all_routes, CHOOSE v \in parsed : TRUE)

\* set(route.version for route in routes)
RECURSIVE VersionSet(_)
VersionSet(metas) ==
    IF metas = <<>> THEN {}
    ELSE SetAdd(VersionSet(SubSeq(metas, 1, Len(metas) - 1)),
                metas[Len(metas)].version)

\* VersionManager.apply(app): the snapshot, the strip, the scan of the
\* snapshot, and the versions it returns (none when the scan raised).
apply ==
    /\ Len(runs) < MaxApplies
    /\ LET found == _get_routes_by_version(routes)
       IN /\ manager' = [manager EXCEPT !._original_routes = {routes}]
          /\ routes' = _strip_routes(routes)
          /\ runs' = Append(runs,
                [before |-> routes,
                 after |-> _strip_routes(routes),
                 raised |-> found.raised,
                 latest_version |-> found.latest_version,
                 all_routes |-> found.all_routes,
                 deprecated_routes |-> found.deprecated_routes,
                 removed_routes |-> found.removed_routes,
                 versions |-> VersionSet(found.all_routes)])
    /\ UNCHANGED <<regVars, histVars, concVars, mwVars, declVars, parseVars, swapVars>>

NextMgr ==
    \/ apply

SpecMgr == InitMgr /\ [][NextMgr]_vars

\* C14: after apply(), with L the latest version the run computed, a
\* scanned version-tagged route is in removed_routes exactly when its
\* removed_in is set and L >= removed_in, and in deprecated_routes exactly
\* when its deprecated_in is set and L >= deprecated_in.
C14_Classification ==
    \A k \in 1..Len(runs) : \A i \in 1..Len(runs[k].before) :
        LET run == runs[k]
            route == run.before[i]
            tagged == /\ route.kind \in {"APIRoute", "WebSocketRoute"}
                      /\ route.version_metadata # None
            In(list, m) == \E j \in 1..Len(list) : list[j] = m
        IN (~run.raised /\ tagged) =>
              \A m \in route.version_metadata : \A L \in run.latest_version :
                  /\ In(run.removed_routes, m) <=>
                        \E d \in m.removed_in : VCmp(L, d) >= 0
                  /\ In(run.deprecated_routes, m) <=>
                        \E d \in m.deprecated_in : VCmp(L, d) >= 0

\* The routes 1.0.0, 1.5.0 deprecated in 2.0.0 and 2.0.0 removed in 2.0.0
\* were applied: latest is 2.0.0, the third route is removed, the second
\* deprecated, the first neither.
C14_Witness ==
    \E k \in 1..Len(runs) :
        LET run == runs[k]
            first == VersionMetadata("/users", "GET", V(1, 0, 0, <<>>, <<>>), None, None)
            second == VersionMetadata("/items", "GET", V(1, 5, 0, <<>>, <<>>),
                                      {V(2, 0, 0, <<>>, <<>>)}, None)
            third == VersionMetadata("/orders", "POST", V(2, 0, 0, <<>>, <<>>),
                                     None, {V(2, 0, 0, <<>>, <<>>)})
        IN /\ Len(run.before) = 3
           /\ {run.before[i].version_metadata : i \in 1..3}
                 = {{first}, {second}, {third}}
           /\ run.latest_version = {V(2, 0, 0, <<>>, <<>>)}
           /\ run.removed_routes = <<third>>
           /\ run.deprecated_routes = <<second>>

C16_ApplyIdempotent ==
    Len(runs) >= 2 =>
        /\ runs[2].after = runs[1].after
        /\ runs[2].versions = runs[1].versions
        /\ runs[2].deprecated_routes = runs[1].deprecated_routes
        /\ runs[2].removed_routes = runs[1].removed_routes

\* C17: after apply(), the live route table holds exactly the routes of the
\* table before the call whose path is a documentation path (docs, redoc,
\* oauth2 redirect) with include_main_docs, or the openapi path with
\* include_main_openapi_route, in their original order; with both switches
\* off it is empty.
C17_StrippedTable ==
    \A k \in 1..Len(runs) :
        LET run == runs[k]
            kept == {i \in 1..Len(run.before) :
                        \/ /\ manager._include_main_docs
                           /\ run.before[i].path \in
                                 {"/docs", "/redoc", "/docs/oauth2-redirect"}
                        \/ /\ manager._include_main_openapi_route
                           /\ run.before[i].path = "/openapi.json"}
            \* the position in before of the j-th kept route
            RECURSIVE nth(_)
            nth(j) == IF j = 1 THEN CHOOSE i \in kept : \A h \in kept : i <= h
                      ELSE CHOOSE i \in kept :
                              /\ i > nth(j - 1)
                              /\ \A h \in kept : h > nth(j - 1) => i <= h
        IN /\ Len(run.after) = Cardinality(kept)
           /\ \A j \in 1..Len(run.after) : run.after[j] = run.before[nth(j)]
           /\ (~manager._include_main_docs /\ ~manager._include_main_openapi_route)
                 => run.after = <<>>
           /\ k = Len(runs) => routes = run.after

\* A table of three routes was applied with include_main_docs on and
\* include_main_openapi_route off: the two documentation routes were kept
\* in order, the openapi route was dropped.
C17_Witness ==
    \E k \in 1..Len(runs) :
        /\ manager._include_main_docs /\ ~manager._include_main_openapi_route
        /\ Len(runs[k].before) = 3
        /\ runs[k].before[1].path = "/docs"
        /\ runs[k].before[2].path = "/openapi.json"
        /\ runs[k].before[3].path = "/docs"
        /\ runs[k].before[1] # runs[k].before[3]
        /\ runs[k].after = <<runs[k].before[1], runs[k].before[3]>>
        /\ routes = runs[k].after

\* C18 as stated: after apply(), no route the run classified as removed is
\* in the live route table.
C18_Original ==
    \A k \in 1..Len(runs) : \A i \in 1..Len(runs[k].after) :
        LET route == runs[k].after[i]
        IN (/\ route.kind \in {"APIRoute", "WebSocketRoute"}
            /\ route.version_metadata # None) =>
               \A m \in route.version_metadata :
                   \A j \in 1..Len(runs[k].removed_routes) :
                       runs[k].removed_routes[j] # m

\* C18: after apply(), a route the run classified as removed is in the live
\* route table only if its path is one of the paths the switches keep; with
\* both switches off no such route is in the table.
C18_RemovedOnlyOnKeptPaths ==
    \A k \in 1..Len(runs) : \A i \in 1..Len(runs[k].after) :
        LET route == runs[k].after[i]
            removed == /\ route.kind \in {"APIRoute", "WebSocketRoute"}
                       /\ \E m \in route.version_metadata :
                             \E j \in 1..Len(runs[k].removed_routes) :
                                 runs[k].removed_routes[j] = m
        IN removed =>
              \/ /\ manager._include_main_docs
                 /\ route.path \in {"/docs", "/redoc", "/docs/oauth2-redirect"}
              \/ /\ manager._include_main_openapi_route
                 /\ route.path = "/openapi.json"

\* A run classified two routes as removed: the one at /orders is gone from
\* the live table, the one at the documentation path /docs is still there.
C18_Witness ==
    \E k \in 1..Len(runs) :
        /\ Len(runs[k].removed_routes) = 2
        /\ \E j \in 1..2 : runs[k].removed_routes[j].path = "/orders"
        /\ \E j \in 1..2 : runs[k].removed_routes[j].path = "/docs"
        /\ Len(runs[k].after) = 1
        /\ runs[k].after[1].kind = "APIRoute"
        /\ runs[k].after[1].path = "/docs"
        /\ routes = runs[k].after

\* C19: during apply(), a route whose handler has no bound version
\* metadata, or that is neither an API nor a WebSocket route, is skipped:
\* the scan raises no error for it (the only error of a run is the
\* ValueError for a configured default_version that is not SemVer, on a
\* table without version-tagged routes), the discovered versions and the
\* latest version come from the other routes or the default, and its
\* metadata, if any, is in neither deprecated_routes nor removed_routes.
C19_SkippedRoutes ==
    \A k \in 1..Len(runs) :
        LET run == runs[k]
            skipped == {i \in 1..Len(run.before) :
                           \/ run.before[i].kind \notin {"APIRoute", "WebSocketRoute"}
                           \/ ~run.before[i].has_endpoint
                           \/ run.before[i].version_metadata = None}
            others == UNION {run.before[i].version_metadata :
                                i \in (1..Len(run.before)) \ skipped}
            In(list, m) == \E j \in 1..Len(list) : list[j] = m
        IN skipped # {} =>
              /\ run.raised =>
                    others = {} /\ VersionParse(manager._default_version) = None
              /\ run.versions = {} <=> others = {}
              /\ run.versions \subseteq {m.version : m \in others}
              /\ run.latest_version \subseteq
                    {m.version : m \in others}
                        \cup VersionParse(manager._default_version)
              /\ \A i \in skipped : \A m \in run.before[i].version_metadata \ others :
                    /\ ~In(run.all_routes, m)
                    /\ ~In(run.deprecated_routes, m)
                    /\ ~In(run.removed_routes, m)

\* A table with an API route without metadata, a plain route whose handler
\* has metadata of version 3.0.0 and the API route of version 1.0.0 was
\* applied without error: 1.0.0 is the only version and the latest one.
C19_Witness ==
    \E k \in 1..Len(runs) :
        /\ Len(runs[k].before) = 3
        /\ \E i \in 1..3 : /\ runs[k].before[i].kind = "APIRoute"
                           /\ runs[k].before[i].version_metadata = None
        /\ \E i \in 1..3 : /\ runs[k].before[i].kind = "Route"
                           /\ runs[k].before[i].version_metadata # None
        /\ ~runs[k].raised
        /\ runs[k].versions = {V(1, 0, 0, <<>>, <<>>)}
        /\ runs[k].latest_version = {V(1, 0, 0, <<>>, <<>>)}

\* C27: in every run of apply(), a route with both deprecated_in and
\* removed_in set and deprecated_in <= removed_in that is classified as
\* removed is classified as deprecated too.
C27_RemovedImpliesDeprecated ==
    \A k \in 1..Len(runs) :
        \A i \in 1..Len(runs[k].removed_routes) :
            LET version_info == runs[k].removed_routes[i]
            IN (/\ version_info.deprecated_in # None
                /\ version_info.removed_in # None
                /\ \A d \in version_info.deprecated_in :
                   \A x \in version_info.removed_in : VLeq(d, x)) =>
                   \E j \in 1..Len(runs[k].deprecated_routes) :
                       runs[k].deprecated_routes[j] = version_info

\* A run classified /ws (deprecated in 1.0.0, removed in 2.0.0) as removed
\* and as deprecated, and /old, whose removal precedes its deprecation, as
\* removed only.
C27_Witness ==
    \E k \in 1..Len(runs) :
        /\ \E i \in 1..Len(runs[k].removed_routes) :
              /\ runs[k].removed_routes[i].path = "/ws"
              /\ \E j \in 1..Len(runs[k].deprecated_routes) :
                    runs[k].deprecated_routes[j] = runs[k].removed_routes[i]
        /\ \E i \in 1..Len(runs[k].removed_routes) :
              /\ runs[k].removed_routes[i].path = "/old"
              /\ \A j \in 1..Len(runs[k].deprecated_routes) :
                    runs[k].deprecated_routes[j].path # "/old"

(***************************************************************************)
(* Route declarations (SpecDecl): route(...) and the per-verb decorators   *)
(* applied, one after another, to the same function.                       *)
(***************************************************************************)
MaxDecls == 2

\* _parse_version: SEMVER_REGEX (optional v, major, optional minor and
\* patch, optional -prerelease, optional +build), absent minor and patch
\* read as "0", then Version.parse; {} when either raises ValueError.
_parse_version(version) ==
    LET body == IF version # <<>> /\ Head(version) = "v" THEN Tail(version)
                ELSE version
        plus == Split1(body, "+")
        dash == Split1(plus[1], "-")
        numbers == Split(dash[1], ".")
        class == Digits \cup Letters \cup {".", "-"}
        Within(text) == text # <<>> /\ \A i \in 1..Len(text) : text[i] \in class
        match ==
            /\ Len(numbers) \in 1..3
            /\ \A i \in 1..Len(numbers) :
                  /\ numbers[i] # <<>>
                  /\ \A j \in 1..Len(numbers[i]) : numbers[i][j] \in Digits
            /\ Len(dash) = 2 => Within(dash[2])
            /\ Len(plus) = 2 => Within(plus[2])
        major == numbers[1]
        minor == IF Len(numbers) >= 2 THEN numbers[2] ELSE <<"0">>
        patch == IF Len(numbers) >= 3 THEN numbers[3] ELSE <<"0">>
        normalized ==
            major \o <<".">> \o minor \o <<".">> \o patch
                \o (IF Len(dash) = 2 THEN <<"-">> \o dash[2] ELSE <<>>)
                \o (IF Len(plus) = 2 THEN <<"+">> \o plus[2] ELSE <<>>)
    IN IF match THEN VersionParse(normalized) ELSE {}

\* The RouteMetadata of a declaration: its path and methods (the other
\* fields pass through from the arguments).
RouteMetadata(path, methods) == [path |-> path, methods |-> methods]

\* A methods argument: a list or a set of verbs.
List(items) == [type |-> "list", items |-> items]
PySet(items) == [type |-> "set", items |-> items]

\* The arguments of route(...): path, methods, version, deprecated_in,
\* removed_in; {} is None, a text {<<>>} is the empty string.  via names
\* the decorator the call of route() came through.
RouteArgs ==
    [via : {"route"},
     path : {"/first", "/second"},
     methods : {None, {List(<<"POST">>)}, {List(<<"PUT", "GET">>)},
                {PySet(<<"GET">>)}},
     version : {None, {<<>>}, {<<"v", "2">>}, {<<"x">>}},
     deprecated_in : {None, {<<"2", ".", "0">>}},
     removed_in : {None, {<<"3", ".", "x">>}}]

Verbs == {"get", "post", "put", "patch", "delete", "head", "option", "trace"}

\* Faulty variant: every per-verb decorator declares GET.
VerbMethods_get(verb) == <<"GET">>

\* The methods argument each per-verb decorator hands to route().
VerbMethods(verb) ==
    CASE verb = "get" -> <<"GET">>
      [] verb = "post" -> <<"POST">>
      [] verb = "put" -> <<"PUT">>
      [] verb = "patch" -> <<"PATCH">>
      [] verb = "delete" -> <<"DELETE">>
      [] verb = "head" -> <<"HEAD">>
      [] verb = "option" -> <<"OPTION">>
      [] verb = "trace" -> <<"TRACE">>

\* The arguments of the per-verb decorators of the model.
VerbArgs ==
    [path : {"/first", "/second"}, version : {None},
     deprecated_in : {None}, removed_in : {None}]

InitDecl ==
    /\ _versions = {}
    /\ _default_version = None
    /\ _deprecated_versions = {}
    /\ last = NoCall
    /\ pre = Fresh
    /\ nops = 0
    /\ pc = "idle"
    /\ ver_obj = None
    /\ rpc = "idle"
    /\ robs = NoObs
    /\ mw = NoMiddleware
    /\ reqs = <<>>
    /\ routes = <<>>
    /\ manager = NoManager
    /\ runs = <<>>
    /\ handler = Undecorated
    /\ decl = NoDeclaration
    /\ parse = NoText
    /\ apc = "idle"
    /\ observed = {}

\* The outcome of the statements of decorator() before its two setattr
\* calls: the exception raised, or the two metadata objects.
Built(a) ==
    LET Parsed(text) == UNION {_parse_version(t) : t \in text}
        Fails(text) == text \notin {None, {<<>>}} /\ Parsed(text) = {}
        given == UNION {IF m.items # <<>> THEN {m} ELSE {} : m \in a.methods}
    IN IF Fails(a.version) \/ Fails(a.deprecated_in) \/ Fails(a.removed_in)
       THEN [raised |-> "ValueError"]
       ELSE IF \E m \in given : m.type = "set"
       THEN [raised |-> "TypeError"]
       ELSE [raised |-> "None",
             version_metadata |->
                 VersionMetadata(
                     a.path,
                     IF given = {} THEN "GET"
                     ELSE (CHOOSE m \in given : TRUE).items[1],
                     IF a.version \in {None, {<<>>}}
                     THEN CHOOSE v \in VersionParse(<<"1", ".", "0", ".", "0">>) : TRUE
                     ELSE CHOOSE v \in Parsed(a.version) : TRUE,
                     Parsed(a.deprecated_in),
                     Parsed(a.removed_in)),
             route_metadata |-> RouteMetadata(a.path, a.methods)]

\* Faulty variant: the metadata is added to what the function already has.
decorator_appending(a) ==
    /\ decl.n < MaxDecls
    /\ LET built == Built(a)
       IN /\ handler' =
                IF built.raised # "None" THEN handler
                ELSE [__version_metadata__ |->
                          handler.__version_metadata__ \cup {built.version_metadata},
                      __route_metadata__ |->
                          handler.__route_metadata__ \cup {built.route_metadata}]
          /\ decl' = [n |-> decl.n + 1, args |-> {a}, raised |-> built.raised,
                      before |-> handler]
    /\ UNCHANGED <<regVars, histVars, concVars, mwVars, appVars, parseVars, swapVars>>

\* Faulty variant: the route metadata is attached before the versions are
\* parsed.
decorator_route_first(a) ==
    /\ decl.n < MaxDecls
    /\ LET built == Built(a)
       IN /\ handler' =
                IF built.raised # "None"
                THEN [handler EXCEPT
                        !.__route_metadata__ = {RouteMetadata(a.path, a.methods)}]
                ELSE [__version_metadata__ |-> {built.version_metadata},
                      __route_metadata__ |-> {built.route_metadata}]
          /\ decl' = [n |-> decl.n + 1, args |-> {a}, raised |-> built.raised,
                      before |-> handler]
    /\ UNCHANGED <<regVars, histVars, concVars, mwVars, appVars, parseVars, swapVars>>

\* route(**a)(method): decorator() parses the three versions, builds both
\* metadata objects and sets the two attributes of the function.
decorator(a) ==
    /\ decl.n < MaxDecls
    /\ LET built == Built(a)
       IN /\ handler' =
                IF built.raised # "None" THEN handler
                ELSE [__version_metadata__ |-> {built.version_metadata},
                      __route_metadata__ |-> {built.route_metadata}]
          /\ decl' = [n |-> decl.n + 1, args |-> {a}, raised |-> built.raised,
                      before |-> handler]
    /\ UNCHANGED <<regVars, histVars, concVars, mwVars, appVars, parseVars, swapVars>>

\* get(...), post(...), ...: route() with the verb's methods list.
verb_decorator(verb, a) ==
    decorator([via |-> verb, path |-> a.path,
               methods |-> {List(VerbMethods(verb))},
               version |-> a.version, deprecated_in |-> a.deprecated_in,
               removed_in |-> a.removed_in])

RouteDecl == \E a \in RouteArgs : decorator(a)
VerbDecl == \E verb \in Verbs, a \in VerbArgs : verb_decorator(verb, a)

NextDecl ==
    \/ RouteDecl
    \/ VerbDecl

SpecDecl == InitDecl /\ [][NextDecl]_vars

\* C20: after any sequence of declarations applied to one function, the
\* function carries exactly one RouteMetadata and one VersionMetadata, both
\* those of the most recent declaration that was applied: when the last
\* declaration returned, they carry its path and its methods and nothing
\* of an earlier declaration, and when it raised they are what they were.
C20_LastDeclarationWins ==
    /\ Cardinality(handler.__route_metadata__) <= 1
    /\ Cardinality(handler.__version_metadata__) <= 1
    /\ \A a \in decl.args :
          IF decl.raised = "None"
          THEN /\ handler.__route_metadata__ = {RouteMetadata(a.path, a.methods)}
               /\ Cardinality(handler.__version_metadata__) = 1
               /\ \A m \in handler.__version_metadata__ :
                     /\ m.path = a.path
                     /\ \A g \in a.methods : g.items # <<>> => m.method = g.items[1]
                     /\ a.version \in {None, {<<>>}} =>
                           m.version = V(1, 0, 0, <<>>, <<>>)
                     /\ a.version = {<<"v", "2">>} =>
                           m.version = V(2, 0, 0, <<>>, <<>>)
                     /\ a.deprecated_in = None <=> m.deprecated_in = None
                     /\ a.removed_in = None <=> m.removed_in = None
          ELSE handler = decl.before

\* post("/second") was applied to a function that get("/first") had been
\* applied to: the function carries POST /second and nothing of the first
\* declaration.
C20_Witness ==
    /\ decl.n = 2
    /\ decl.raised = "None"
    /\ decl.before.__route_metadata__
          = {RouteMetadata("/first", {List(<<"GET">>)})}
    /\ Cardinality(decl.before.__version_metadata__) = 1
    /\ handler.__route_metadata__
          = {RouteMetadata("/second", {List(<<"POST">>)})}
    /\ handler.__version_metadata__
          = {VersionMetadata("/second", "POST", V(1, 0, 0, <<>>, <<>>), None, None)}

\* C28: a declaration that fails on a malformed version, deprecated_in or
\* removed_in leaves both metadata slots of the function as they were
\* before it, and the two slots of a function are always of one
\* declaration: both empty, or one pair with the same path whose method is
\* the first of the pair's methods.
C28_FailedDeclarationWritesNothing ==
    /\ decl.raised = "ValueError" =>
          /\ handler.__route_metadata__ = decl.before.__route_metadata__
          /\ handler.__version_metadata__ = decl.before.__version_metadata__
    /\ handler.__route_metadata__ = {} <=> handler.__version_metadata__ = {}
    /\ \A r \in handler.__route_metadata__ :
       \A m \in handler.__version_metadata__ :
          /\ m.path = r.path
          /\ \A g \in r.methods : g.items # <<>> => m.method = g.items[1]

\* route("/second", removed_in="3.x") failed on a function that carried
\* the pair of a declaration of /first, and the function still carries it.
C28_Witness ==
    /\ decl.n = 2
    /\ decl.raised = "ValueError"
    /\ \A a \in decl.args : a.path = "/second" /\ a.removed_in # None
    /\ \E r \in handler.__route_metadata__ : r.path = "/first"
    /\ \E m \in handler.__version_metadata__ : m.path = "/first"
    /\ handler = decl.before

\* C21: a declaration raises the version-format error (ValueError)
\* whenever a given version, deprecated_in or removed_in text does not
\* parse as a version, and returns only if every given one parses.
C21_MalformedVersionFails ==
    \A a \in decl.args :
        LET given == a.version \cup a.deprecated_in \cup a.removed_in
            malformed == {t \in given : _parse_version(t) = {}}
        IN /\ malformed # {} => decl.raised = "ValueError"
           /\ decl.raised = "None" => malformed = {}

Part(sep, part) ==
    IF part = {} THEN <<>> ELSE <<sep>> \o (CHOOSE n \in part : TRUE)

\* A text of the shape of SEMVER_REGEX: optional v, major, optional minor
\* and patch, optional -prerelease, optional +build.
Compose(prefix, major, minor, patch, prerelease, build) ==
    prefix \o major \o Part(".", minor) \o Part(".", patch)
        \o Part("-", prerelease) \o Part("+", build)

WellFormed ==
    [prefix : {<<>>, <<"v">>},
     major : {<<"0">>, <<"2">>, <<"1", "0">>},
     minor : {None, {<<"0">>}, {<<"1">>}},
     patch : {None, {<<"0">>}, {<<"3">>}},
     prerelease : {None, {<<"r", "c">>}},
     build : {None, {<<"b">>}}]

\* The texts handed to the parsers: the well-formed ones (a patch needs a
\* minor), and texts the pattern or Version.parse rejects.
Texts ==
    {Compose(w.prefix, w.major, w.minor, w.patch, w.prerelease, w.build) :
        w \in {x \in WellFormed : x.minor = None => x.patch = None}}
      \cup {<<>>, <<"x">>, <<"2", ".">>, <<"2", ".", ".", "0">>, <<".", "2">>,
            <<"1", ".", "2", ".", "3", ".", "4">>, <<"v", "v", "2">>,
            <<"V", "2">>, <<"2", "-">>, <<"2", "+">>, <<"2", ".", "x">>,
            <<"-", "r", "c">>, <<"2", "-", "r", "c", "+">>,
            <<"0", "1">>, <<"2", ".", "0", "1">>}

InitParse ==
    /\ _versions = {}
    /\ _default_version = None
    /\ _deprecated_versions = {}
    /\ last = NoCall
    /\ pre = Fresh
    /\ nops = 0
    /\ pc = "idle"
    /\ ver_obj = None
    /\ rpc = "idle"
    /\ robs = NoObs
    /\ mw = NoMiddleware
    /\ reqs = <<>>
    /\ routes = <<>>
    /\ manager = NoManager
    /\ runs = <<>>
    /\ handler = Undecorated
    /\ decl = NoDeclaration
    /\ parse \in {[NoText EXCEPT !.text = t] : t \in Texts}
    /\ apc = "idle"
    /\ observed = {}

\* Faulty variant: the text goes to Version.parse without its v, absent
\* minor and patch are not filled in.
parse_version_no_fill(version) == VersionParse(LStrip(version, "v"))

\* parse_version of routing/utils/version.py: statement for statement the
\* code of decorators._parse_version; {} when it raises ValueError.
parse_version(version) == _parse_version(version)

\* parse_version(text) is called.
call_parse_version ==
    /\ ~parse.parsed
    /\ parse' = [parse EXCEPT !.parsed = TRUE, !.value = parse_version(parse.text)]
    /\ UNCHANGED <<regVars, histVars, concVars, mwVars, appVars, declVars, swapVars>>

\* The middleware handles a request whose Accept header carries the text
\* as version token (lines 53-81): the version it writes into
\* requested_version, {} when it leaves the default there.
negotiate ==
    /\ ~parse.negotiated
    /\ parse' =
          [parse EXCEPT
             !.negotiated = TRUE,
             !.requested =
                 UNION {VersionParse(Normalize(version_str)) :
                          version_str \in
                              AcceptMatch(Acme, AcceptValue(Acme, parse.text, Json))}]
    /\ UNCHANGED <<regVars, histVars, concVars, mwVars, appVars, declVars, swapVars>>

NextParse ==
    \/ call_parse_version
    \/ negotiate

SpecParse == InitParse /\ [][NextParse]_vars

\* C23: the parser reads equivalent spellings as one value: a text with
\* or without the leading v and with absent minor or patch parses to the
\* version with these read as 0, so that "M", "M.0", "M.0.0" and "vM.0.0"
\* give the identical value, prerelease and build carried through; a text
\* that does not match the SemVer pattern is rejected with an error.
C23_ParserNormalizes ==
    parse.parsed =>
        /\ \A w \in WellFormed :
              (/\ w.minor = None => w.patch = None
               /\ parse.text = Compose(w.prefix, w.major, w.minor, w.patch,
                                       w.prerelease, w.build)) =>
                  parse.value =
                      {V(ToInt(w.major),
                         IF w.minor = None THEN 0
                         ELSE ToInt(CHOOSE n \in w.minor : TRUE),
                         IF w.patch = None THEN 0
                         ELSE ToInt(CHOOSE n \in w.patch : TRUE),
                         IF w.prerelease = None THEN <<>>
                         ELSE CHOOSE n \in w.prerelease : TRUE,
                         IF w.build = None THEN <<>>
                         ELSE CHOOSE n \in w.build : TRUE)}
        /\ parse.text \in
              {<<>>, <<"x">>, <<"2", ".">>, <<"2", ".", ".", "0">>, <<".", "2">>,
               <<"1", ".", "2", ".", "3", ".", "4">>, <<"v", "v", "2">>,
               <<"V", "2">>, <<"2", "-">>, <<"2", "+">>, <<"2", ".", "x">>,
               <<"-", "r", "c">>, <<"2", "-", "r", "c", "+">>}
              => parse.value = None

\* "v2.0" was parsed to 2.0.0.
C23_Witness ==
    /\ parse.text = <<"v", "2", ".", "0">>
    /\ parse.parsed
    /\ parse.value = {V(2, 0, 0, <<>>, <<>>)}

\* C24: the middleware's normalisation of a version token agrees with the
\* parser: when parse_version gives a value for the token, the middleware
\* writes that value into requested_version, and when parse_version
\* raises, the middleware leaves the default there.
C24_MiddlewareAgreesWithParser ==
    (parse.parsed /\ parse.negotiated) => parse.requested = parse.value

(***************************************************************************)
(* apply() beside a thread that dispatches requests (SpecSwap): apply()    *)
(* statement by statement, the other thread reading app.router.routes.     *)
(***************************************************************************)
InitSwap ==
    /\ _versions = {}
    /\ _default_version = None
    /\ _deprecated_versions = {}
    /\ last = NoCall
    /\ pre = Fresh
    /\ nops = 0
    /\ pc = "idle"
    /\ ver_obj = None
    /\ rpc = "idle"
    /\ robs = NoObs
    /\ mw = NoMiddleware
    /\ reqs = <<>>
    /\ routes \in RouteTables
    /\ manager \in {m \in Managers : m._default_version = <<"1", ".", "0", ".", "0">>}
    /\ runs = <<>>
    /\ handler = Undecorated
    /\ decl = NoDeclaration
    /\ parse = NoText
    /\ apc = "idle"
    /\ observed = {}

\* Lines 39-40: self._app = app; self._original_routes = app.routes.copy()
apply_snapshot ==
    /\ apc = "idle"
    /\ manager' = [manager EXCEPT !._original_routes = {routes}]
    /\ apc' = "snapshot"
    /\ UNCHANGED <<routes, runs, observed>>
    /\ UNCHANGED <<regVars, histVars, concVars, mwVars, declVars, parseVars>>

\* Faulty variant: the live list is pruned in place, one route at a time.
apply_strip_in_place ==
    /\ apc = "snapshot"
    /\ LET drop == {i \in 1..Len(routes) :
                       \A j \in 1..Len(_strip_routes(routes)) :
                           _strip_routes(routes)[j] # routes[i]}
           first == CHOOSE i \in drop : \A j \in drop : i <= j
       IN IF drop = {}
          THEN routes' = routes /\ apc' = "stripped"
          ELSE /\ routes' = SubSeq(routes, 1, first - 1)
                               \o SubSeq(routes, first + 1, Len(routes))
               /\ apc' = IF Cardinality(drop) = 1 THEN "stripped" ELSE apc
    /\ UNCHANGED <<manager, runs, observed>>
    /\ UNCHANGED <<regVars, histVars, concVars, mwVars, declVars, parseVars>>

\* Lines 95-98: the list the comprehension built is assigned to
\* self._app.router.routes in one store.
apply_strip ==
    /\ apc = "snapshot"
    /\ routes' = _strip_routes(routes)
    /\ apc' = "stripped"
    /\ UNCHANGED <<manager, runs, observed>>
    /\ UNCHANGED <<regVars, histVars, concVars, mwVars, declVars, parseVars>>

\* Lines 44-50: the scan of the snapshot and the return.
apply_scan ==
    /\ apc = "stripped"
    /\ \E original \in manager._original_routes :
          LET found == _get_routes_by_version(original)
          IN runs' = Append(runs,
                 [before |-> original,
                  after |-> routes,
                  raised |-> found.raised,
                  latest_version |-> found.latest_version,
                  all_routes |-> found.all_routes,
                  deprecated_routes |-> found.deprecated_routes,
                  removed_routes |-> found.removed_routes,
                  versions |-> VersionSet(found.all_routes)])
    /\ apc' = "done"
    /\ UNCHANGED <<routes, manager, observed>>
    /\ UNCHANGED <<regVars, histVars, concVars, mwVars, declVars, parseVars>>

\* The dispatching thread reads app.router.routes.
observe ==
    /\ observed' = observed \cup {routes}
    /\ UNCHANGED <<routes, manager, runs, apc>>
    /\ UNCHANGED <<regVars, histVars, concVars, mwVars, declVars, parseVars>>

NextSwap ==
    \/ apply_snapshot
    \/ apply_strip
    \/ apply_scan
    \/ observe

SpecSwap == InitSwap /\ [][NextSwap]_vars

\* C25: while apply() runs beside dispatching threads, every table such a
\* thread reads is the complete table apply() was called on or the
\* complete pruned table, never a table pruned in part.
C25_AtomicSwap ==
    IF apc = "idle" THEN observed \subseteq {routes}
    ELSE \A original \in manager._original_routes :
            LET paths_to_keep ==
                    (IF manager._include_main_docs
                     THEN {"/docs", "/redoc", "/docs/oauth2-redirect"} ELSE {})
                        \cup (IF manager._include_main_openapi_route
                              THEN {"/openapi.json"} ELSE {})
            IN observed \subseteq
                  {original,
                   SelectSeq(original, LAMBDA route : route.path \in paths_to_keep)}

\* apply() dropped two routes of three, and the dispatching thread has
\* read the table before and after the swap.
C25_Witness ==
    /\ apc = "done"
    /\ Cardinality(observed) = 2
    /\ routes \in observed
    /\ manager._original_routes \subseteq observed
    /\ Len(routes) = 1
    /\ \E original \in manager._original_routes : Len(original) = 3

====
